---- MODULE Spec2Model ----
(***************************************************************************)
(* Model of etl/airbnb_data_ingestion.py: the schema validator, the        *)
(* eighteen column cleaners, clean_data, reject_bad_rows and the           *)
(* ingest_listings run.                                                    *)
(*                                                                         *)
(* Text is a sequence of one-character strings.  A cell value is a record  *)
(* [k, s, m, e]: k is the kind ("None", "nan", "NA", "NaT", "str", "num",  *)
(* "date"), s the text of a "str" (or the ISO text of a "date"), and m, e  *)
(* the decimal m * 10^e of a "num", with m carrying no trailing zero.      *)
(* Numbers that pandas holds as float64 are modelled by their shortest     *)
(* decimal, which is what astype(str) prints and what to_numeric reads     *)
(* back for the short decimals of the model.                               *)
(***************************************************************************)
EXTENDS Integers, Sequences, FiniteSets, TLC

\* ---------------------------------------------------------------- bounds
MaxStrLen == 4
MaxRows == 2
MaxWorkers == 2
MaxPoolRows == 1

\* ---------------------------------------------------------------- values
None == [k |-> "None", s |-> <<>>, m |-> 0, e |-> 0]
NaN == [k |-> "nan", s |-> <<>>, m |-> 0, e |-> 0]
NA == [k |-> "NA", s |-> <<>>, m |-> 0, e |-> 0]
NaT == [k |-> "NaT", s |-> <<>>, m |-> 0, e |-> 0]
Str(t) == [k |-> "str", s |-> t, m |-> 0, e |-> 0]
Date(t) == [k |-> "date", s |-> t, m |-> 0, e |-> 0]

RECURSIVE StripZeros(_, _)
StripZeros(m, e) ==
    IF m = 0 THEN <<0, 0>>
    ELSE IF m % 10 = 0 THEN StripZeros(m \div 10, e + 1)
    ELSE <<m, e>>

Num(m, e) ==
    LET a == IF m < 0 THEN 0 - m ELSE m
        n == StripZeros(a, e)
    IN [k |-> "num", s |-> <<>>, m |-> IF m < 0 THEN 0 - n[1] ELSE n[1], e |-> n[2]]

isna(v) == v.k \in {"None", "nan", "NA", "NaT"}

\* ------------------------------------------------------------------ text
Digits == {"0", "1", "2", "3", "4", "5", "6", "7", "8", "9"}

DigitVal ==
    ("0" :> 0) @@ ("1" :> 1) @@ ("2" :> 2) @@ ("3" :> 3) @@ ("4" :> 4) @@
    ("5" :> 5) @@ ("6" :> 6) @@ ("7" :> 7) @@ ("8" :> 8) @@ ("9" :> 9)

DigitChar == <<"0", "1", "2", "3", "4", "5", "6", "7", "8", "9">>

RECURSIVE DigitsToInt(_)
DigitsToInt(t) ==
    IF t = <<>> THEN 0
    ELSE 10 * DigitsToInt(SubSeq(t, 1, Len(t) - 1)) + DigitVal[t[Len(t)]]

RECURSIVE IntToDigits(_)
IntToDigits(n) ==
    IF n < 10 THEN <<DigitChar[n + 1]>>
    ELSE Append(IntToDigits(n \div 10), DigitChar[(n % 10) + 1])

Zeros(n) == [i \in 1..n |-> "0"]

IsSpace(c) == c \in {" ", "\t", "\n"}

RECURSIVE LStrip(_)
LStrip(t) == IF t # <<>> /\ IsSpace(t[1]) THEN LStrip(Tail(t)) ELSE t

RECURSIVE RStrip(_)
RStrip(t) ==
    IF t # <<>> /\ IsSpace(t[Len(t)]) THEN RStrip(SubSeq(t, 1, Len(t) - 1)) ELSE t

\* str.strip()
strip(t) == RStrip(LStrip(t))

\* str.replace(pattern, "", regex=True) for a pattern that is one character
\* class: every character of the class is dropped.
RemoveChars(t, class) == SelectSeq(t, LAMBDA c : c \notin class)
KeepChars(t, class) == SelectSeq(t, LAMBDA c : c \in class)

\* repr of a float64 m * 10^e: fixed notation while the decimal point lies
\* within (-4, 16], exponent notation otherwise.
FormatFloat(m, e) ==
    LET a == IF m < 0 THEN 0 - m ELSE m
        sign == IF m < 0 THEN <<"-">> ELSE <<>>
        D == IntToDigits(a)
        n == Len(D)
        decpt == n + e
        x == decpt - 1
        ax == IF x < 0 THEN 0 - x ELSE x
        xd == IF ax < 10 THEN <<"0">> \o IntToDigits(ax) ELSE IntToDigits(ax)
    IN IF m = 0 THEN <<"0", ".", "0">>
       ELSE IF decpt <= -4 \/ decpt > 16
       THEN sign \o <<D[1]>> \o (IF n > 1 THEN <<".">> \o SubSeq(D, 2, n) ELSE <<>>)
                 \o <<"e">> \o (IF x < 0 THEN <<"-">> ELSE <<"+">>) \o xd
       ELSE IF decpt <= 0 THEN sign \o <<"0", ".">> \o Zeros(0 - decpt) \o D
       ELSE IF decpt >= n THEN sign \o D \o Zeros(decpt - n) \o <<".", "0">>
       ELSE sign \o SubSeq(D, 1, decpt) \o <<".">> \o SubSeq(D, decpt + 1, n)

\* astype(str) of one cell
ToStr(v) ==
    CASE v.k = "str" -> v.s
      [] v.k = "num" -> FormatFloat(v.m, v.e)
      [] v.k = "date" -> v.s
      [] v.k = "None" -> <<"N", "o", "n", "e">>
      [] v.k = "nan" -> <<"n", "a", "n">>
      [] v.k = "NA" -> <<"<", "N", "A", ">">>
      [] OTHER -> <<"N", "a", "T">>

\* The number a text denotes for pd.to_numeric, or NaN (errors="coerce"):
\* an optional sign, then digits with at most one decimal point and at
\* least one digit.
ParseNumber(t) ==
    LET neg == t # <<>> /\ t[1] = "-"
        body == IF t # <<>> /\ t[1] \in {"-", "+"} THEN Tail(t) ELSE t
        dots == {i \in 1..Len(body) : body[i] = "."}
        dot == IF dots = {} THEN Len(body) + 1 ELSE CHOOSE i \in dots : TRUE
        int == SubSeq(body, 1, dot - 1)
        frac == SubSeq(body, dot + 1, Len(body))
        ok == /\ Cardinality(dots) <= 1
              /\ \A i \in 1..Len(body) : body[i] \in Digits \cup {"."}
              /\ Len(int) + Len(frac) >= 1
        a == DigitsToInt(int \o frac)
    IN IF ok THEN Num(IF neg THEN 0 - a ELSE a, 0 - Len(frac)) ELSE NaN

\* pd.to_numeric on one cell
numeric(v) ==
    CASE v.k = "num" -> v
      [] v.k = "NA" -> NA
      [] v.k = "str" -> ParseNumber(v.s)
      [] OTHER -> NaN

\* -------------------------------------------------------------- columns
\* A column is a sequence of cells.  A cleaner returns the cleaned column
\* or the exception it raised.
Ok(col) == [ok |-> TRUE, col |-> col, err |-> "none"]
Raise(x) == [ok |-> FALSE, col |-> <<>>, err |-> x]

\* pd.to_numeric(col, errors="coerce")
to_numeric(col) == [i \in 1..Len(col) |-> numeric(col[i])]

\* Series.astype("Int64"): NaN becomes <NA>; a value with a fractional part
\* cannot be cast and the whole cast raises TypeError.
astype_Int64(col) ==
    IF \E i \in 1..Len(col) : col[i].k = "num" /\ col[i].e < 0
    THEN Raise("TypeError")
    ELSE Ok([i \in 1..Len(col) |-> IF col[i].k = "num" THEN col[i] ELSE NA])

\* Faulty variant of fillna: an empty text is filled like a null.
fillna_blank(col, t) ==
    [i \in 1..Len(col) |->
        IF isna(col[i]) \/ col[i] = Str(<<>>) \/ (col[i].k = "str" /\ strip(col[i].s) = <<>>)
        THEN Str(t) ELSE col[i]]

fillna(col, t) == [i \in 1..Len(col) |-> IF isna(col[i]) THEN Str(t) ELSE col[i]]
astype_str(col) == [i \in 1..Len(col) |-> Str(ToStr(col[i]))]
str_strip(col) == [i \in 1..Len(col) |-> Str(strip(col[i].s))]

Unknown == <<"U", "n", "k", "n", "o", "w", "n">>
NotAvailable == <<"N", "o", "t", " ", "a", "v", "a", "i", "l", "a", "b", "l", "e">>

clean_listing_id(col) == astype_Int64(to_numeric(col))
clean_host_id(col) == astype_Int64(to_numeric(col))

clean_name(col) == Ok(str_strip(astype_str(fillna(col, Unknown))))
clean_host_name(col) == Ok(str_strip(astype_str(fillna(col, Unknown))))
clean_room_type(col) == Ok(str_strip(astype_str(fillna(col, Unknown))))
clean_neighbourhood_group(col) == Ok(str_strip(astype_str(fillna(col, Unknown))))
clean_neighbourhood(col) == Ok(str_strip(astype_str(fillna(col, Unknown))))
clean_license(col) == Ok(str_strip(astype_str(fillna(col, NotAvailable))))

clean_latitude(col) == Ok(to_numeric(col))
clean_longitude(col) == Ok(to_numeric(col))

\* .str.replace(r"[$,]", "", regex=True)
StripCurrency(t) == RemoveChars(t, {"$", ","})
\* Faulty variant of StripNonNumeric: a minus sign survives only in front.
StripNonNumeric_leading(t) ==
    LET kept == KeepChars(t, Digits \cup {".", "-"})
    IN IF kept = <<>> THEN kept
       ELSE <<kept[1]>> \o KeepChars(Tail(kept), Digits \cup {"."})

\* .str.replace(r"[^0-9.\-]", "", regex=True)
StripNonNumeric(t) == KeepChars(t, Digits \cup {".", "-"})

clean_price(col) ==
    LET cleaned == [i \in 1..Len(col) |->
                        Str(StripNonNumeric(StripCurrency(ToStr(col[i]))))]
    IN Ok(to_numeric(cleaned))

clean_minimum_nights(col) == Ok(to_numeric(col))
clean_num_reviews(col) == Ok(to_numeric(col))
clean_reviews_per_month(col) == Ok(to_numeric(col))
clean_calculated_host_count(col) == Ok(to_numeric(col))
clean_availability_365(col) == Ok(to_numeric(col))
clean_num_reviews_ltm(col) == Ok(to_numeric(col))

\* A calendar date written YYYY-MM-DD.
IsIsoDate(t) ==
    /\ Len(t) = 10
    /\ t[5] = "-" /\ t[8] = "-"
    /\ \A i \in {1, 2, 3, 4, 6, 7, 9, 10} : t[i] \in Digits
    /\ LET y == DigitsToInt(SubSeq(t, 1, 4))
           mo == DigitsToInt(SubSeq(t, 6, 7))
           d == DigitsToInt(SubSeq(t, 9, 10))
           leap == (y % 4 = 0 /\ y % 100 # 0) \/ y % 400 = 0
           last == IF mo = 2 THEN (IF leap THEN 29 ELSE 28)
                   ELSE IF mo \in {4, 6, 9, 11} THEN 30 ELSE 31
       IN y >= 1 /\ mo \in 1..12 /\ d \in 1..last

\* pd.to_datetime on one cell: a date stays, a text
\* that is a date becomes it, a number is an offset from the epoch, and
\* everything else is NaT.
datetime(v) ==
    CASE v.k = "date" -> v
      [] v.k = "str" -> IF IsIsoDate(v.s) THEN Date(v.s) ELSE NaT
      [] v.k = "num" -> [k |-> "date", s |-> <<>>, m |-> v.m, e |-> v.e]
      [] OTHER -> NaT

\* pd.to_datetime(col, errors="coerce")
to_datetime(col) == [i \in 1..Len(col) |-> datetime(col[i])]

clean_last_review(col) == Ok(to_datetime(col))

required_columns ==
    <<"id", "name", "host_id", "host_name", "neighbourhood_group",
      "neighbourhood", "latitude", "longitude", "room_type", "price",
      "minimum_nights", "number_of_reviews", "last_review",
      "reviews_per_month", "calculated_host_listings_count",
      "availability_365", "number_of_reviews_ltm", "license">>

Range(q) == {q[i] : i \in DOMAIN q}

\* The keys of the cleaners dict of clean_data, in insertion order.
cleaners ==
    <<"id", "name", "host_id", "host_name", "neighbourhood_group",
      "neighbourhood", "latitude", "longitude", "room_type", "price",
      "minimum_nights", "number_of_reviews", "last_review",
      "reviews_per_month", "calculated_host_listings_count",
      "availability_365", "number_of_reviews_ltm", "license">>

\* cleaners[c](col)
cleaner_fn(c, col) ==
    CASE c = "id" -> clean_listing_id(col)
      [] c = "name" -> clean_name(col)
      [] c = "host_id" -> clean_host_id(col)
      [] c = "host_name" -> clean_host_name(col)
      [] c = "neighbourhood_group" -> clean_neighbourhood_group(col)
      [] c = "neighbourhood" -> clean_neighbourhood(col)
      [] c = "latitude" -> clean_latitude(col)
      [] c = "longitude" -> clean_longitude(col)
      [] c = "room_type" -> clean_room_type(col)
      [] c = "price" -> clean_price(col)
      [] c = "minimum_nights" -> clean_minimum_nights(col)
      [] c = "number_of_reviews" -> clean_num_reviews(col)
      [] c = "last_review" -> clean_last_review(col)
      [] c = "reviews_per_month" -> clean_reviews_per_month(col)
      [] c = "calculated_host_listings_count" -> clean_calculated_host_count(col)
      [] c = "availability_365" -> clean_availability_365(col)
      [] c = "number_of_reviews_ltm" -> clean_num_reviews_ltm(col)
      [] c = "license" -> clean_license(col)

\* --------------------------------------------------------------- frames
\* A DataFrame is [columns, rows]: the set of column names and the sequence
\* of rows [idx, cells], idx the row's index label and cells the mapping
\* from each column name to the row's cell.
Frame(columns, rows) == [columns |-> columns, rows |-> rows]
EmptyFrame == Frame({}, <<>>)

\* df[c]
Col(df, c) == [i \in 1..Len(df.rows) |-> df.rows[i].cells[c]]

\* df[c] = col
SetCol(df, c, col) ==
    [df EXCEPT !.rows =
        [i \in 1..Len(df.rows) |-> [df.rows[i] EXCEPT !.cells = [@ EXCEPT ![c] = col[i]]]]]

\* A header name of the file is [name, padded]: padded tells whether blanks
\* surround the name in the file.  df.columns.str.strip() leaves the name.
StripHeader(header) == {h.name : h \in header}

\* read_data past its existence check: pd.read_csv gives the file's rows
\* under a fresh RangeIndex, and the column names are stripped.
read_csv(file) ==
    Frame(StripHeader(file.header),
          [i \in 1..Len(file.rows) |-> [idx |-> i - 1, cells |-> file.rows[i]]])

\* to_csv(path, index=False): the columns and the rows' cells
to_csv(frame) ==
    [columns |-> frame.columns,
     rows |-> [i \in 1..Len(frame.rows) |-> frame.rows[i].cells]]

\* ---------------------------------------------------------------- stages
\* Faulty variant of MissingColumns: it stops at the first absent column.
MissingColumns_first(df) ==
    LET all == SelectSeq(required_columns, LAMBDA c : c \notin df.columns)
    IN IF all = <<>> THEN <<>> ELSE <<all[1]>>

\* The list comprehension of validate_columns.
MissingColumns(df) == SelectSeq(required_columns, LAMBDA c : c \notin df.columns)

validate_columns(df) ==
    LET missing == MissingColumns(df)
    IN IF missing # <<>>
       THEN [ok |-> FALSE, df |-> df, err |-> "ValueError", missing |-> missing]
       ELSE [ok |-> TRUE, df |-> df, err |-> "none", missing |-> <<>>]

\* Faulty variant of ReadClean: the license cleaner is fed the price column.
ReadClean_shared(df, c) == cleaner_fn(c, Col(df, IF c = "license" THEN "price" ELSE c))

\* cleaner_fn(df[col]), the right-hand side of the loop body of clean_data
ReadClean(df, c) == cleaner_fn(c, Col(df, c))

\* The loop of clean_data from its k-th cleaner on; a raising cleaner
\* leaves the columns already replaced as they are.
RECURSIVE CleanFrom(_, _)
CleanFrom(df, k) ==
    IF k > Len(cleaners) THEN [ok |-> TRUE, df |-> df, err |-> "none"]
    ELSE LET r == ReadClean(df, cleaners[k])
         IN IF r.ok THEN CleanFrom(SetCol(df, cleaners[k], r.col), k + 1)
            ELSE [ok |-> FALSE, df |-> df, err |-> r.err]

\* Faulty variant of clean_data: only the required columns are kept.
clean_data_required(df) ==
    LET r == CleanFrom(df, 1)
    IN [r EXCEPT !.df =
          Frame(Range(required_columns),
                [i \in 1..Len(r.df.rows) |->
                    [r.df.rows[i] EXCEPT !.cells = [c \in Range(required_columns) |-> @[c]]]])]

clean_data(df) == CleanFrom(df, 1)

InvalidPrice == <<"I", "n", "v", "a", "l", "i", "d", " ", "p", "r", "i", "c", "e">>

\* df.loc[idx]
loc(df, idx) == CHOOSE r \in Range(df.rows) : r.idx = idx

\* row = df.loc[idx].to_dict(); row["reject_reason"] = "Invalid price"
RejectDict(df, idx) ==
    LET cells == loc(df, idx).cells
    IN [c \in DOMAIN cells \cup {"reject_reason"} |->
            IF c = "reject_reason" THEN Str(InvalidPrice) ELSE cells[c]]

\* pd.DataFrame(rejects): the dicts under a fresh RangeIndex; no dict, no
\* column.
DataFrame(dicts) ==
    Frame(IF dicts = <<>> THEN {} ELSE DOMAIN dicts[1],
          [i \in 1..Len(dicts) |-> [idx |-> i - 1, cells |-> dicts[i]]])

\* df[mask]: the rows at the positions where the mask is true
BoolIndex(df, mask) ==
    LET sel == SelectSeq([i \in 1..Len(df.rows) |-> i], LAMBDA i : mask[i])
    IN [df EXCEPT !.rows = [j \in 1..Len(sel) |-> df.rows[sel[j]]]]

\* Faulty variant of reject_bad_rows: the clean frame is not filtered.
reject_bad_rows_unfiltered(df) ==
    LET bad_price_mask == [i \in 1..Len(df.rows) |-> isna(df.rows[i].cells["price"])]
        bad == BoolIndex(df, bad_price_mask).rows
        rejects == [j \in 1..Len(bad) |-> RejectDict(df, bad[j].idx)]
    IN <<df, DataFrame(rejects)>>

\* Faulty variant of reject_bad_rows: a missing id rejects too.
reject_bad_rows_id(df) ==
    LET bad_mask == [i \in 1..Len(df.rows) |->
                        isna(df.rows[i].cells["price"]) \/ isna(df.rows[i].cells["id"])]
        bad == BoolIndex(df, bad_mask).rows
        rejects == [j \in 1..Len(bad) |-> RejectDict(df, bad[j].idx)]
        df_ok == BoolIndex(df, [i \in 1..Len(df.rows) |-> ~bad_mask[i]])
    IN <<df_ok, DataFrame(rejects)>>

reject_bad_rows(df) ==
    LET bad_price_mask == [i \in 1..Len(df.rows) |-> isna(df.rows[i].cells["price"])]
        bad == BoolIndex(df, bad_price_mask).rows
        rejects == [j \in 1..Len(bad) |-> RejectDict(df, bad[j].idx)]
        df_clean == BoolIndex(df, [i \in 1..Len(df.rows) |-> ~bad_price_mask[i]])
    IN <<df_clean, DataFrame(rejects)>>

\* ------------------------------------------------------------ raw inputs
BoundedStr(chars, n) == UNION {[1..k -> chars] : k \in 0..n}

PriceChars == {"0", "1", ".", "-", "$", ",", "a"}
NumChars == {"0", "1", ".", "-", "a"}
TextChars == {" ", "L", "o"}

T_price == <<"$", "1", ",", "2", "0", "0", ".", "5", "0">>
T_abc == <<"a", "b", "c">>
T_100 == <<"1", "0", "0">>
T_small == <<"0", ".", "0", "0", "0", "0", "1">>
T_loft == <<" ", " ", "L", "o", "f", "t", " ", " ">>
T_date == <<"2", "0", "2", "3", "-", "0", "1", "-", "0", "1">>
T_notdate == <<"n", "o", "t", " ", "a", " ", "d", "a", "t", "e">>
T_lat == <<"4", "0", ".", "7">>
T_lon == <<"-", "7", "3", ".", "9">>
T_frac == <<"1", "0", ".", "5">>

TextColumns ==
    {"name", "host_name", "room_type", "neighbourhood_group", "neighbourhood",
     "license"}

\* The raw cells a column of the input can hold: nulls, texts and numbers.
RawValues(c) ==
    {None, NaN} \cup
    (CASE c = "price" ->
            {Str(t) : t \in BoundedStr(PriceChars, MaxStrLen)
                          \cup {T_price, T_abc, T_100, T_small}}
            \cup {Num(1, -5), Num(12005, -1), Num(100, 0)}
       [] c \in TextColumns ->
            {Str(t) : t \in BoundedStr(TextChars, MaxStrLen) \cup {T_loft, T_abc}}
       [] c = "last_review" -> {Str(T_date), Str(T_notdate), Str(T_abc)}
       [] OTHER ->
            {Str(t) : t \in BoundedStr(NumChars, MaxStrLen - 1)
                          \cup {T_abc, T_lat, T_lon, T_frac}}
            \cup {Num(10, 0), Num(105, -1)})

\* The rows of the input file: the listings of the test-suite and of the
\* scenarios, every required column present, plus one column the pipeline
\* does not know.
BaseRow ==
    [id |-> Str(<<"1", "0">>), name |-> Str(T_loft), host_id |-> Str(<<"7">>),
     host_name |-> Str(<<"A", "n", "n">>), neighbourhood_group |-> None,
     neighbourhood |-> Str(<<"S", "o", "h", "o">>), latitude |-> Str(T_lat),
     longitude |-> Str(T_lon), room_type |-> Str(<<" ", "L", "o", "f", "t">>),
     price |-> Str(T_price), minimum_nights |-> Str(<<"1", "0">>),
     number_of_reviews |-> Str(<<"5">>), last_review |-> Str(T_date),
     reviews_per_month |-> Str(<<"2", ".", "5">>),
     calculated_host_listings_count |-> Str(<<"3">>),
     availability_365 |-> Str(<<"1", "5", "0">>),
     number_of_reviews_ltm |-> Str(<<"1", "2">>), license |-> None,
     source |-> Str(<<"w", "e", "b">>)]

SampleRows ==
    {BaseRow,
     [BaseRow EXCEPT !.id = Str(T_abc), !.price = Str(T_100),
                     !.source = Str(<<"a", "p", "i">>)],
     [BaseRow EXCEPT !.price = Str(T_abc), !.name = None, !.latitude = Str(T_abc),
                     !.last_review = Str(T_notdate), !.license = Str(<<" ", "L", " ">>)],
     [BaseRow EXCEPT !.id = None, !.price = NaN, !.host_id = Str(<<"1", "-", "1">>),
                     !.reviews_per_month = NaN],
     [BaseRow EXCEPT !.price = Num(1, -5), !.name = Str(<<" ">>), !.source = None],
     [BaseRow EXCEPT !.id = Str(T_frac), !.price = Str(<<"1", "-", "1">>)]}

AllColumns == DOMAIN BaseRow

\* The column sets an input file may lack.
DroppedChoices ==
    SUBSET {"host_name", "license", "source"} \cup {AllColumns \ {"id", "name"}}

Restrict(row, cols) == [c \in cols |-> row[c]]

\* The header names a file may write with surrounding blanks.
PaddedChoices == {{}, {"price", "source"}}

InputFiles(dropped, maxrows) ==
    UNION {{[exists |-> TRUE,
             header |-> {[name |-> c, padded |-> c \in pad] : c \in AllColumns \ d},
             rows |-> [i \in 1..n |-> Restrict(rs[i], AllColumns \ d)]] :
               d \in dropped, pad \in PaddedChoices, rs \in [1..n -> SampleRows]} :
           n \in 0..maxrows}

NoFile == [exists |-> FALSE, header |-> {}, rows |-> <<>>]

Reverse(q) == [i \in 1..Len(q) |-> q[Len(q) + 1 - i]]

\* ----------------------------------------------------------------- state
VARIABLES input, pc, df, df_clean, df_rejects, error, named, files, calls,
          order, dispatched, pending, ncol, nraw, nres, nres2, npc

pvars == <<input, pc, df, df_clean, df_rejects, error, named, files, calls>>
qvars == <<order, dispatched, pending>>
nvars == <<ncol, nraw, nres, nres2, npc>>
vars == <<pvars, qvars, nvars>>

NoFiles == [written |-> FALSE, clean |-> to_csv(EmptyFrame), rejects |-> to_csv(EmptyFrame)]

PipelineIdle ==
    /\ input = NoFile
    /\ pc = "idle"
    /\ df = EmptyFrame /\ df_clean = EmptyFrame /\ df_rejects = EmptyFrame
    /\ error = "none" /\ named = <<>>
    /\ files = NoFiles
    /\ calls = <<>>

PoolIdle == order = cleaners /\ dispatched = 0 /\ pending = {}

NormIdle ==
    /\ ncol = "id" /\ nraw = None /\ nres = Ok(<<>>) /\ nres2 = Ok(<<>>)
    /\ npc = "idle"

\* ------------------------------------------------------- ingest_listings
Init ==
    /\ input \in InputFiles(DroppedChoices, MaxRows) \cup {NoFile}
    /\ pc = "read"
    /\ df = EmptyFrame /\ df_clean = EmptyFrame /\ df_rejects = EmptyFrame
    /\ error = "none" /\ named = <<>>
    /\ files = NoFiles
    /\ calls = <<>>
    /\ PoolIdle
    /\ NormIdle

\* df = read_data()
ReadData ==
    /\ pc = "read"
    /\ calls' = Append(calls, "read_data")
    /\ IF input.exists
       THEN /\ df' = read_csv(input)
            /\ pc' = "validate"
            /\ error' = error
       ELSE /\ error' = "FileNotFoundError"
            /\ pc' = "failed"
            /\ df' = df
    /\ UNCHANGED <<input, df_clean, df_rejects, named, files, qvars, nvars>>

\* Faulty variant of ValidateColumns: the failure is recorded and the run
\* goes on to write its (empty) outputs.
ValidateColumns_lax ==
    /\ pc = "validate"
    /\ calls' = Append(calls, "validate_columns")
    /\ LET r == validate_columns(df)
       IN /\ pc' = IF r.ok THEN "clean" ELSE "write"
          /\ error' = r.err
          /\ named' = r.missing
    /\ UNCHANGED <<input, df, df_clean, df_rejects, files, qvars, nvars>>

\* validate_columns(df)
ValidateColumns ==
    /\ pc = "validate"
    /\ calls' = Append(calls, "validate_columns")
    /\ LET r == validate_columns(df)
       IN /\ pc' = IF r.ok THEN "clean" ELSE "failed"
          /\ error' = r.err
          /\ named' = r.missing
    /\ UNCHANGED <<input, df, df_clean, df_rejects, files, qvars, nvars>>

\* df = clean_data(df)
CleanData ==
    /\ pc = "clean"
    /\ calls' = Append(calls, "clean_data")
    /\ LET r == clean_data(df)
       IN /\ df' = r.df
          /\ pc' = IF r.ok THEN "reject" ELSE "failed"
          /\ error' = r.err
    /\ UNCHANGED <<input, df_clean, df_rejects, named, files, qvars, nvars>>

\* df_clean, df_rejects = reject_bad_rows(df)
RejectBadRows ==
    /\ pc = "reject"
    /\ calls' = Append(calls, "reject_bad_rows")
    /\ LET r == reject_bad_rows(df)
       IN /\ df_clean' = r[1]
          /\ df_rejects' = r[2]
    /\ pc' = "write"
    /\ UNCHANGED <<input, df, error, named, files, qvars, nvars>>

\* write_output(df_clean, df_rejects)
WriteOutput ==
    /\ pc = "write"
    /\ calls' = Append(calls, "write_output")
    /\ files' = [written |-> TRUE, clean |-> to_csv(df_clean), rejects |-> to_csv(df_rejects)]
    /\ pc' = "report"
    /\ UNCHANGED <<input, df, df_clean, df_rejects, error, named, qvars, nvars>>

\* the report is printed and (df_clean, df_rejects) returned
Return ==
    /\ pc = "report"
    /\ pc' = "done"
    /\ UNCHANGED <<input, df, df_clean, df_rejects, error, named, files, calls,
                   qvars, nvars>>

Next == ReadData \/ ValidateColumns \/ CleanData \/ RejectBadRows \/ WriteOutput \/ Return

Spec == Init /\ [][Next]_vars

\* ------------------------------------------------- one cleaner, one cell
\* One cleaner applied to a one-cell column, then to its own output.
NormInit ==
    /\ ncol \in Range(cleaners)
    /\ nraw \in RawValues(ncol)
    /\ nres = Ok(<<>>)
    /\ nres2 = Ok(<<>>)
    /\ npc = "raw"
    /\ PipelineIdle
    /\ PoolIdle

NormApply ==
    /\ npc = "raw"
    /\ nres' = cleaner_fn(ncol, <<nraw>>)
    /\ npc' = IF nres'.ok THEN "once" ELSE "raised"
    /\ UNCHANGED <<ncol, nraw, nres2, pvars, qvars>>

NormReapply ==
    /\ npc = "once"
    /\ nres2' = cleaner_fn(ncol, nres.col)
    /\ npc' = IF nres2'.ok THEN "twice" ELSE "raised"
    /\ UNCHANGED <<ncol, nraw, nres, pvars, qvars>>

NormNext == NormApply \/ NormReapply

SpecNorm == NormInit /\ [][NormNext]_vars

\* ---------------------------------------- the cleaners run by a worker pool
\* The orchestration spec.md 4.3 and 5 allow: the cleaners are handed, in
\* dictionary order or in the opposite order, to at most MaxWorkers workers.
\* A worker reads its column when it starts (Dispatch) and replaces it when
\* it finishes (Complete), so reads and writes of different columns
\* interleave.
PoolInit ==
    /\ input \in InputFiles(SUBSET {"source"}, MaxPoolRows)
    /\ pc = "read"
    /\ df = EmptyFrame /\ df_clean = EmptyFrame /\ df_rejects = EmptyFrame
    /\ error = "none" /\ named = <<>>
    /\ files = NoFiles
    /\ calls = <<>>
    /\ order \in {cleaners, Reverse(cleaners)}
    /\ dispatched = 0
    /\ pending = {}
    /\ NormIdle

Dispatch ==
    /\ pc = "clean"
    /\ dispatched < Len(order)
    /\ Cardinality(pending) < MaxWorkers
    /\ LET c == order[dispatched + 1]
       IN pending' = pending \cup {[c |-> c, res |-> ReadClean(df, c)]}
    /\ dispatched' = dispatched + 1
    /\ UNCHANGED <<pvars, order, nvars>>

Complete ==
    /\ pc = "clean"
    /\ \E p \in pending :
        /\ pending' = pending \ {p}
        /\ IF p.res.ok
           THEN /\ df' = SetCol(df, p.c, p.res.col)
                /\ UNCHANGED <<pc, error>>
           ELSE /\ error' = p.res.err
                /\ pc' = "failed"
                /\ df' = df
    /\ UNCHANGED <<input, df_clean, df_rejects, named, files, calls, order,
                   dispatched, nvars>>

Join ==
    /\ pc = "clean"
    /\ dispatched = Len(order)
    /\ pending = {}
    /\ calls' = Append(calls, "clean_data")
    /\ pc' = "reject"
    /\ UNCHANGED <<input, df, df_clean, df_rejects, error, named, files, qvars, nvars>>

PoolNext ==
    \/ ReadData \/ ValidateColumns
    \/ Dispatch \/ Complete \/ Join
    \/ RejectBadRows \/ WriteOutput \/ Return

SpecPool == PoolInit /\ [][PoolNext]_vars

\* ---------------------------------------------------------------- claims
Rejected == pc \in {"write", "report", "done"}
Cleaned == pc \in {"reject", "write", "report", "done"}

Count(q, x) == Cardinality({i \in DOMAIN q : q[i] = x})
Cells(frame) == [i \in 1..Len(frame.rows) |-> frame.rows[i].cells]
WithoutReason(frame) ==
    [i \in 1..Len(frame.rows) |->
        Restrict(frame.rows[i].cells, DOMAIN frame.rows[i].cells \ {"reject_reason"})]

\* C1: reject_bad_rows puts every row of the normalized batch in exactly one
\* of its two outputs: each row occurs in accepted and rejected together
\* exactly as often as in the input, and the two lengths add up to the
\* input's.
C1_Partition ==
    Rejected =>
        /\ Len(df_clean.rows) + Len(df_rejects.rows) = Len(df.rows)
        /\ \A x \in Range(Cells(df)) \cup Range(Cells(df_clean))
                        \cup Range(WithoutReason(df_rejects)) :
              Count(Cells(df), x)
                  = Count(Cells(df_clean), x) + Count(WithoutReason(df_rejects), x)
        /\ \A r \in Range(df_clean.rows) :
              r.cells \notin Range(WithoutReason(df_rejects))

C1_Witness ==
    /\ pc = "done"
    /\ Len(df_clean.rows) >= 1
    /\ Len(df_rejects.rows) >= 1

PriceMissing(i) == df.rows[i].cells["price"] = NaN
RankMissing(i) == Cardinality({j \in 1..i : PriceMissing(j)})
RankPresent(i) == Cardinality({j \in 1..i : ~PriceMissing(j)})

\* C2: a row is rejected iff its price is the missing-float marker, whatever
\* its other columns hold: accepted is the rows with a price, in order,
\* unchanged and without reject_reason; rejected is the rows without a
\* price, in order, with every original column and reject_reason =
\* "Invalid price".
C2_Admission ==
    Rejected =>
        /\ Len(df_rejects.rows) = Cardinality({i \in 1..Len(df.rows) : PriceMissing(i)})
        /\ Len(df_clean.rows) = Cardinality({i \in 1..Len(df.rows) : ~PriceMissing(i)})
        /\ df_clean.columns = df.columns
        /\ "reject_reason" \notin df_clean.columns
        /\ \A i \in 1..Len(df.rows) :
              IF PriceMissing(i)
              THEN LET cells == df_rejects.rows[RankMissing(i)].cells
                   IN /\ DOMAIN cells = df.columns \cup {"reject_reason"}
                      /\ Restrict(cells, df.columns) = df.rows[i].cells
                      /\ cells["reject_reason"] = Str(InvalidPrice)
              ELSE /\ df_clean.rows[RankPresent(i)] = df.rows[i]
                   /\ DOMAIN df_clean.rows[RankPresent(i)].cells = df.columns

C2_Witness ==
    /\ pc = "done"
    /\ \E r \in Range(df_clean.rows) : r.cells["id"] = NA
    /\ \E r \in Range(df_rejects.rows) : r.cells["id"] # NA

Absent == {c \in Range(required_columns) : \A h \in input.header : h.name # c}
Validated == Len(calls) >= 2

\* C3: validate_columns fails iff one of the eighteen required columns is
\* absent, its error names every absent column, and otherwise the batch is
\* returned as it was read.
C3_Validator ==
    /\ Cardinality(Range(required_columns)) = 18
    /\ Validated /\ Absent # {} =>
          /\ pc = "failed"
          /\ error = "ValueError"
          /\ Range(named) = Absent
    /\ Validated /\ Absent = {} =>
          /\ error # "ValueError"
          /\ named = <<>>
          /\ pc = "clean" => df = read_csv(input)

C3_Witness ==
    /\ pc = "failed"
    /\ error = "ValueError"
    /\ Cardinality(Range(named)) >= 2

\* C4: in a run validate_columns is called before clean_data, and after a
\* validation failure the run is over: nothing was normalized, filtered or
\* written, then or later.
C4_ValidateFirst ==
    /\ \A i \in 1..Len(calls) :
          calls[i] \in {"clean_data", "reject_bad_rows", "write_output"}
              => \E j \in 1..(i - 1) : calls[j] = "validate_columns"
    /\ (Validated /\ Absent # {}) =>
          /\ pc = "failed"
          /\ calls = <<"read_data", "validate_columns">>
          /\ df = read_csv(input)
          /\ df_clean = EmptyFrame /\ df_rejects = EmptyFrame
          /\ ~files.written

C4_Witness ==
    /\ pc = "failed"
    /\ error = "ValueError"
    /\ Len(df.rows) >= 1

\* C5: no cleaner ever raises, whatever the raw value.
C5_NeverRaises == npc # "raised"

\* Keep a minus sign only where no kept character precedes it.
RECURSIVE LeadingMinusOnly(_, _)
LeadingMinusOnly(t, kept) ==
    IF t = <<>> THEN kept
    ELSE IF t[1] \in Digits \cup {"."} \/ (t[1] = "-" /\ kept = <<>>)
    THEN LeadingMinusOnly(Tail(t), Append(kept, t[1]))
    ELSE LeadingMinusOnly(Tail(t), kept)

PriceDone == ncol = "price" /\ npc \in {"once", "twice"}

\* C6 as stated: clean_price parses the residue in which only a leading
\* minus sign survives.
C6_LeadingMinus ==
    PriceDone =>
        nres.col[1] = ParseNumber(LeadingMinusOnly(RemoveChars(ToStr(nraw), {"$", ","}), <<>>))

Residue(v) == KeepChars(ToStr(v), Digits \cup {".", "-"})

WellFormed(t) ==
    /\ \E i \in 1..Len(t) : t[i] \in Digits
    /\ Cardinality({i \in 1..Len(t) : t[i] = "."}) <= 1
    /\ \A i \in 1..Len(t) : t[i] = "-" => i = 1

\* C6 amended: clean_price keeps every digit, decimal point and minus sign
\* of the value's text, wherever it stands, and parses that residue; a
\* residue that is no number (empty, or with a minus sign that is not
\* leading, or two decimal points) gives NaN.
C6_Residue ==
    PriceDone =>
        /\ nres.col[1] = ParseNumber(Residue(nraw))
        /\ nres.col[1] = NaN <=> ~WellFormed(Residue(nraw))
        /\ nraw = Str(T_price) => nres.col[1] = Num(12005, -1)
        /\ nraw = Str(T_abc) => nres.col[1] = NaN

C6_Witness ==
    /\ PriceDone
    /\ nraw = Str(<<"1", "-", "1">>)
    /\ nres.col[1] = NaN

Placeholder(c) == IF c = "license" THEN NotAvailable ELSE Unknown

\* C7: a text cleaner turns a null into the column's placeholder and every
\* text into itself less its surrounding whitespace; an empty or
\* whitespace-only text becomes the empty text, not the placeholder.
C7_Text ==
    (ncol \in TextColumns /\ npc \in {"once", "twice"}) =>
        /\ isna(nraw) => nres.col[1] = Str(Placeholder(ncol))
        /\ nraw.k = "str" =>
              LET out == nres.col[1].s
              IN /\ nres.col[1].k = "str"
                 /\ \E a, b \in 0..Len(nraw.s) :
                       /\ a + Len(out) + b = Len(nraw.s)
                       /\ out = SubSeq(nraw.s, a + 1, a + Len(out))
                       /\ \A i \in 1..a : IsSpace(nraw.s[i])
                       /\ \A i \in (a + Len(out) + 1)..Len(nraw.s) : IsSpace(nraw.s[i])
                 /\ out # <<>> => ~IsSpace(out[1]) /\ ~IsSpace(out[Len(out)])
                 /\ (\A i \in 1..Len(nraw.s) : IsSpace(nraw.s[i])) => out = <<>>

C7_Witness ==
    /\ ncol = "license"
    /\ npc = "once"
    /\ nraw = Str(<<" ", " ">>)
    /\ nres.col[1] = Str(<<>>)

\* C8: a cleaner applied to its own output returns that output.
C8_Idempotent == npc = "twice" => nres2 = nres

\* C9: whatever the order in which the cleaners run, and however their
\* reads and writes interleave, the outcome is that of clean_data's loop:
\* the same batch, or the same exception.
C9_OrderFree ==
    LET seq == clean_data(read_csv(input))
    IN /\ Cleaned => seq.ok /\ df = seq.df
       /\ error = "TypeError" => ~seq.ok /\ seq.err = "TypeError"

C9_Witness ==
    /\ pc = "done"
    /\ order = Reverse(cleaners)
    /\ Len(df.rows) >= 1
    /\ "source" \in df.columns

\* C10: clean_data replaces each required column by its cleaner's output
\* and nothing else: the other columns, the number of rows and their order
\* stay.
C10_Frame ==
    Cleaned =>
        /\ df.columns = StripHeader(input.header)
        /\ Len(df.rows) = Len(input.rows)
        /\ \A i \in 1..Len(df.rows) :
              /\ df.rows[i].idx = i - 1
              /\ DOMAIN df.rows[i].cells = StripHeader(input.header)
              /\ \A c \in StripHeader(input.header) \ Range(required_columns) :
                    df.rows[i].cells[c] = input.rows[i][c]
        /\ \A c \in Range(required_columns) :
              Col(df, c) = cleaner_fn(c, [i \in 1..Len(input.rows) |-> input.rows[i][c]]).col

C10_Witness ==
    /\ pc = "reject"
    /\ "source" \in df.columns
    /\ Len(df.rows) >= 2
    /\ df.rows[1].cells["price"] # df.rows[2].cells["price"]

====
